---- MODULE Spec2Model ----
(***************************************************************************)
(* Rug-pull risk classifier scripts: modeling/train_rugpull.py (Loader,    *)
(* Feature Flattener, Label Extractor, Trainer) and                        *)
(* modeling/score_rugpull.py (Scorer).                                     *)
(*                                                                         *)
(* JSON values are tagged records [tag, n]: tag "absent" is a key that is  *)
(* not in the dict, "none" is JSON null / Python None, "num" a number held *)
(* in tenths (n = 10 is 1.0), "str" a non-numeric string.  A nested        *)
(* sub-object is [tag, n, m]: tag "map" with mapping m, or one of the      *)
(* scalar tags.                                                            *)
(***************************************************************************)
EXTENDS Integers, Sequences, FiniteSets, TLC

\* Longest dataset file made of any lines (blank and malformed ones included).
MaxLines == 3
\* Longest dataset file made of record lines only.
MaxRecords == 5

----------------------------------------------------------------------------
\* JSON values

Absent == [tag |-> "absent", n |-> 0]
None == [tag |-> "none", n |-> 0]
Str == [tag |-> "str", n |-> 0]
Num(k) == [tag |-> "num", n |-> k]

\* dict.get(key): None for a key that is not there
Get(v) == IF v.tag = "absent" THEN None ELSE v

\* Python truthiness of a scalar value
Truthy(v) == \/ v.tag = "str"
             \/ v.tag = "num" /\ v.n # 0

RugKeys == {"score", "holdersPct", "liquidityUsd", "vol24hUsd"}
VolKeys == {"rangePct", "chopPct"}
SigKeys == {"score"}
MomKeys == {"score", "pctShort", "pctLong"}

EmptyMap(keys) == [k \in keys |-> Absent]
FullMap(keys, k0) == [k \in keys |-> Num(k0)]

\* a nested sub-object that is a mapping
Map(mp) == [tag |-> "map", n |-> 0, m |-> mp]
\* a nested field that is absent, null or a scalar (v is a JSON value)
Scalar(v, keys) == [tag |-> v.tag, n |-> v.n, m |-> EmptyMap(keys)]

\* Python truthiness of a sub-object: an empty mapping, None and 0 are falsy
TruthyObj(c) == IF c.tag = "map" THEN \E k \in DOMAIN c.m : c.m[k].tag # "absent"
                ELSE Truthy(c)

----------------------------------------------------------------------------
\* FEATURE_COLUMNS, train_rugpull.py

FEATURE_COLUMNS ==
  << "score", "rug_risk_score", "rug_holders_pct", "rug_liquidity_usd",
     "rug_vol24h_usd", "price_impact_pct", "volatility_range_pct",
     "volatility_chop_pct", "signal_score", "momentum_score",
     "momentum_pct_short", "momentum_pct_long" >>

ColumnSet == {FEATURE_COLUMNS[i] : i \in DOMAIN FEATURE_COLUMNS}

NullRow == [c \in ColumnSet |-> None]

----------------------------------------------------------------------------
\* flatten_record

\* the same read without the `or {}` fallback
OrEmptyDropped(c) == c

\* `record.get(key) or {}`: the mapping the fields are then read from
OrEmpty(c) == IF TruthyObj(c) THEN c ELSE Map(EmptyMap(DOMAIN c.m))

\* <container>.get(key) raises AttributeError on a truthy value that is no mapping
HasGet(c) == c.tag = "map"

SubGet(c, key) == Get(c.m[key])

\* the dict literal of the return statement, read from the four containers
flatten_fields(record, rug, volatility, signal, momentum) ==
  IF ~HasGet(rug) \/ ~HasGet(volatility) \/ ~HasGet(signal) \/ ~HasGet(momentum)
     THEN [ok |-> FALSE, row |-> NullRow]
     ELSE [ok |-> TRUE,
           row |-> [c \in ColumnSet |->
             CASE c = "score" -> Get(record.score)
               [] c = "rug_risk_score" -> SubGet(rug, "score")
               [] c = "rug_holders_pct" -> SubGet(rug, "holdersPct")
               [] c = "rug_liquidity_usd" -> SubGet(rug, "liquidityUsd")
               [] c = "rug_vol24h_usd" -> SubGet(rug, "vol24hUsd")
               [] c = "price_impact_pct" -> Get(record.priceImpactPct)
               [] c = "volatility_range_pct" -> SubGet(volatility, "rangePct")
               [] c = "volatility_chop_pct" -> SubGet(volatility, "chopPct")
               [] c = "signal_score" -> SubGet(signal, "score")
               [] c = "momentum_score" -> SubGet(momentum, "score")
               [] c = "momentum_pct_short" -> SubGet(momentum, "pctShort")
               [] c = "momentum_pct_long" -> SubGet(momentum, "pctLong")]]

flatten_record(record) ==
  flatten_fields(record, OrEmpty(record.rugRisk), OrEmpty(record.volatility),
                 OrEmpty(record.signal), OrEmpty(record.momentum))

----------------------------------------------------------------------------
\* Records: the JSON objects a dataset line can hold

Rec(t, address, score, pip, rug, vol, sig, mom, lab, alt) ==
  [t |-> t, address |-> address, name |-> address, score |-> score,
   priceImpactPct |-> pip, rugRisk |-> rug, volatility |-> vol,
   signal |-> sig, momentum |-> mom, rug_label |-> lab, alt_label |-> alt]

NullRecord ==
  Rec(Absent, Absent, Absent, Absent, Scalar(Absent, RugKeys), Scalar(Absent, VolKeys),
      Scalar(Absent, SigKeys), Scalar(Absent, MomKeys), Absent, Absent)

\* every field there; rug_label 0, alt_label 1
RecLab0 ==
  Rec(Num(10), Str, Num(50), Num(10), Map(FullMap(RugKeys, 20)), Map(FullMap(VolKeys, 30)),
      Map(FullMap(SigKeys, 40)), Map(FullMap(MomKeys, 60)), Num(0), Num(10))

\* rugRisk absent, volatility null, momentum partly filled; rug_label 1
RecLab1 ==
  Rec(Num(20), Str, Absent, None, Scalar(Absent, RugKeys), Scalar(None, VolKeys),
      Map(FullMap(SigKeys, 70)),
      Map([EmptyMap(MomKeys) EXCEPT !["pctShort"] = Num(80)]), Num(10), Absent)

\* no rug_label; alt_label 0.9; rugRisk an empty mapping, signal the number 0
RecNoLab ==
  Rec(Num(30), Absent, Num(0), Absent, Map(EmptyMap(RugKeys)), Map(FullMap(VolKeys, 90)),
      Scalar(Num(0), SigKeys), Scalar(None, MomKeys), Absent, Num(9))

\* rug_label a non-numeric string, alt_label null
RecStrLab ==
  Rec(Num(40), Str, Num(50), Num(10), Map(FullMap(RugKeys, 20)), Scalar(Absent, VolKeys),
      Map(FullMap(SigKeys, 40)), Map(FullMap(MomKeys, 60)), Str, None)

\* the score feature a non-numeric string; rug_label 0, alt_label 1
RecStrFeat ==
  Rec(None, Str, Str, Num(10), Map(FullMap(RugKeys, 20)), Map(FullMap(VolKeys, 30)),
      Scalar(Absent, SigKeys), Map(FullMap(MomKeys, 60)), Num(0), Num(10))

\* rugRisk the number 0.7 instead of a mapping; rug_label 1, alt_label 0
RecNumRug ==
  Rec(Num(60), Str, Num(50), Num(10), Scalar(Num(7), RugKeys), Map(FullMap(VolKeys, 30)),
      Map(FullMap(SigKeys, 40)), Map(FullMap(MomKeys, 60)), Num(10), Num(0))

\* The lines a dataset file is made of: a blank one (iterating the handle
\* yields a blank line as whitespace, its line end), a malformed one and one
\* JSON text per record above.
LinePool == {"  ", "{bad", "lab0", "lab1", "nolab", "strlab", "strfeat", "numrug"}

\* the lines that hold a record every step up to the split accepts
RecordLines == {"lab0", "lab1", "nolab", "strfeat"}

\* The dataset files: short ones of any lines, longer ones of record lines.
Files == UNION {[1..k -> LinePool] : k \in 0..MaxLines}
         \cup UNION {[1..k -> RecordLines] : k \in 0..MaxRecords}

----------------------------------------------------------------------------
\* load_jsonl

\* str.strip()
Strip(line) == IF line = "  " THEN "" ELSE line

\* json.loads(line): ok = FALSE is json.JSONDecodeError
JsonLoads(line) ==
  CASE line = "lab0" -> [ok |-> TRUE, rec |-> RecLab0]
    [] line = "lab1" -> [ok |-> TRUE, rec |-> RecLab1]
    [] line = "nolab" -> [ok |-> TRUE, rec |-> RecNoLab]
    [] line = "strlab" -> [ok |-> TRUE, rec |-> RecStrLab]
    [] line = "strfeat" -> [ok |-> TRUE, rec |-> RecStrFeat]
    [] line = "numrug" -> [ok |-> TRUE, rec |-> RecNumRug]
    [] OTHER -> [ok |-> FALSE, rec |-> NullRecord]

\* the loop with a malformed line skipped instead of raised
RECURSIVE load_loop_skipping(_, _)
load_loop_skipping(lines, rows) ==
  IF lines = << >> THEN [ok |-> TRUE, rows |-> rows]
  ELSE LET line == Strip(Head(lines))
       IN IF line = "" \/ ~JsonLoads(line).ok
          THEN load_loop_skipping(Tail(lines), rows)
          ELSE load_loop_skipping(Tail(lines), Append(rows, JsonLoads(line).rec))

\* `for line in handle`: rows so far, lines still to read; ok = FALSE is the
\* exception leaving load_jsonl, whose local rows nobody receives
RECURSIVE load_loop(_, _)
load_loop(lines, rows) ==
  IF lines = << >> THEN [ok |-> TRUE, rows |-> rows]
  ELSE LET line == Strip(Head(lines))
       IN IF line = "" THEN load_loop(Tail(lines), rows)
          ELSE IF ~JsonLoads(line).ok THEN [ok |-> FALSE, rows |-> << >>]
          ELSE load_loop(Tail(lines), Append(rows, JsonLoads(line).rec))

load_jsonl(file) == load_loop(file, << >>)

----------------------------------------------------------------------------
\* build_dataframe, build_labels and the pandas operations main applies

\* a flattening that drops the records without a score
build_dataframe_dropping(records) ==
  LET kept == SelectSeq(records, LAMBDA r : Get(r.score).tag # "none")
      flat == [i \in DOMAIN kept |-> flatten_record(kept[i])]
  IN IF \E i \in DOMAIN flat : ~flat[i].ok
     THEN [ok |-> FALSE, df |-> << >>]
     ELSE [ok |-> TRUE,
           df |-> [i \in DOMAIN flat |-> [idx |-> i - 1, row |-> flat[i].row]]]

\* a dataframe is a sequence of [idx, row]: idx the pandas index label
\* (0-based position in records), row the cells by column name
build_dataframe(records) ==
  LET flat == [i \in DOMAIN records |-> flatten_record(records[i])]
  IN IF \E i \in DOMAIN flat : ~flat[i].ok
     THEN [ok |-> FALSE, df |-> << >>]
     ELSE [ok |-> TRUE,
           df |-> [i \in DOMAIN flat |-> [idx |-> i - 1, row |-> flat[i].row]]]

NaN == [tag |-> "nan", n |-> 0]

\* pd.Series(labels, dtype="float"): None becomes NaN, a number stays, a
\* non-numeric string raises ValueError (ok = FALSE)
build_labels(records, label_field) ==
  LET labels == [i \in DOMAIN records |-> Get(records[i][label_field])]
  IN IF \E i \in DOMAIN labels : labels[i].tag = "str"
     THEN [ok |-> FALSE, labels |-> << >>]
     ELSE [ok |-> TRUE,
           labels |-> [i \in DOMAIN labels |->
                         [idx |-> i - 1,
                          v |-> IF labels[i].tag = "none" THEN NaN ELSE labels[i]]]]

IsNa(v) == v.tag \in {"none", "nan"}

\* a mask that keeps every row
notna_keep_all(labels) == {labels[i].idx : i \in DOMAIN labels}

\* labels.notna(): the index labels whose value is there
notna(labels) == {labels[i].idx : i \in {j \in DOMAIN labels : ~IsNa(labels[j].v)}}

\* .loc[mask]
loc(frame, mask) == SelectSeq(frame, LAMBDA e : e.idx \in mask)

\* .fillna(0)
fillna(df) ==
  [i \in DOMAIN df |->
     [idx |-> df[i].idx,
      row |-> [c \in DOMAIN df[i].row |->
                 IF IsNa(df[i].row[c]) THEN Num(0) ELSE df[i].row[c]]]]

\* .astype(int): truncation of the float (held in tenths) toward zero
astype_int(labels) ==
  [i \in DOMAIN labels |-> [idx |-> labels[i].idx, c |-> labels[i].v.n \div 10]]

\* .nunique()
nunique(labels) == Cardinality({labels[i].c : i \in DOMAIN labels})

\* df[FEATURE_COLUMNS]: the cells of each row in the order of the column list
columns(df, cols) ==
  [i \in DOMAIN df |->
     [idx |-> df[i].idx, vec |-> [k \in DOMAIN cols |-> df[i].row[cols[k]]]]]

----------------------------------------------------------------------------
\* sklearn.model_selection.train_test_split(..., test_size, stratify=labels)
\* as main calls it.  y is the int label series, test_size in tenths.

Classes(y) == {y[i].c : i \in DOMAIN y}

IdxOf(y, c) == {y[i].idx : i \in {j \in DOMAIN y : y[j].c = c}}

\* n_test = ceil(test_size * n_samples)
NTest(n, test_size) == (test_size * n + 9) \div 10

\* n_train = n_samples - n_test (train_size is None)
NTrain(n, test_size) == n - NTest(n, test_size)

\* the conditions under which the split raises ValueError
SplitRaises(y, test_size) ==
  LET n == Len(y)
      k == Cardinality(Classes(y))
  IN \/ test_size <= 0
     \/ test_size >= 10
     \/ NTrain(n, test_size) <= 0
     \/ \E c \in Classes(y) : Cardinality(IdxOf(y, c)) < 2
     \/ NTrain(n, test_size) < k
     \/ NTest(n, test_size) < k

RECURSIVE SumOver(_, _)
SumOver(f, S) == IF S = {} THEN 0
                 ELSE LET c == CHOOSE x \in S : TRUE
                      IN f[c] + SumOver(f, S \ {c})

\* _approximate_mode(class_counts, n_draws): the floor of each class's share,
\* the rest handed out by largest remainder, ties broken by the generator
Allocations(cnt, n_draws) ==
  LET cls == DOMAIN cnt
      n == SumOver(cnt, cls)
      fl == [c \in cls |-> (cnt[c] * n_draws) \div n]
      rem == [c \in cls |-> (cnt[c] * n_draws) % n]
  IN {a \in [cls -> 0..n_draws] :
        /\ \A c \in cls : a[c] \in {fl[c], fl[c] + 1}
        /\ SumOver(a, cls) = n_draws
        /\ \A c, d \in cls :
             (a[c] = fl[c] + 1 /\ a[d] = fl[d]) => rem[c] >= rem[d]}

\* StratifiedShuffleSplit._iter_indices: per class, the first n_i rows of a
\* permutation go to train and the next t_i to test.  The permutation is the
\* generator's, so every choice of rows with these counts is a possible split.
Splits(y, test_size) ==
  LET n == Len(y)
      all == {y[i].idx : i \in DOMAIN y}
      cls == Classes(y)
      idx == [c \in cls |-> IdxOf(y, c)]
      cnt == [c \in cls |-> Cardinality(idx[c])]
      Pick(from, k) == {S \in SUBSET from : \A c \in cls : Cardinality(S \cap idx[c]) = k[c]}
  IN UNION {
       UNION {
         UNION {{[train |-> T, test |-> E] : E \in Pick(all \ T, t_i)} :
                  t_i \in Allocations([c \in cls |-> cnt[c] - n_i[c]], NTest(n, test_size))} :
         T \in Pick(all, n_i)} :
       n_i \in Allocations(cnt, NTrain(n, test_size))}

----------------------------------------------------------------------------
\* The model and the files on disk

NoModel == [kind |-> "none", train |-> {}]
OldModel == [kind |-> "old", train |-> {}]
NoMetrics == [kind |-> "none", train_rows |-> 0, test_rows |-> 0]
OldMetrics == [kind |-> "old", train_rows |-> 0, test_rows |-> 0]
NoOut == [kind |-> "none", lines |-> << >>]
OldOut == [kind |-> "old", lines |-> << >>]

\* nothing written yet / the artifacts of an earlier run are there
FreshDisk == [model |-> NoModel, metrics |-> NoMetrics, out |-> NoOut]
StaleDisk == [model |-> OldModel, metrics |-> OldMetrics, out |-> OldOut]

HasStr(vec) == \E k \in DOMAIN vec : vec[k].tag = "str"

\* HistGradientBoostingClassifier input validation: a cell that is no number
\* raises ValueError
RowsRaise(X, idxs) == \E i \in DOMAIN X : X[i].idx \in idxs /\ HasStr(X[i].vec)

\* model.predict_proba(X)[:, 1]: one probability per row, in row order, a
\* function of the model and of the row's feature vector
predict_proba(model, X) == [i \in DOMAIN X |-> [m |-> model.kind, x |-> X[i].vec]]

Min(a, b) == IF a < b THEN a ELSE b

\* the payload written for each pair of zip(records, proba, strict=False)
payloads(recs, proba) ==
  [i \in 1..Min(Len(recs), Len(proba)) |->
     [t |-> Get(recs[i].t), address |-> Get(recs[i].address),
      name |-> Get(recs[i].name), model_score |-> proba[i]]]

----------------------------------------------------------------------------
\* Command lines

\* test_size 0, label_field "" and seed -1 stand for an option not given
NoArgv == [test_size |-> 0, label_field |-> "", seed |-> -1]

TrainArgv == [test_size : {0, 5}, label_field : {"", "alt_label"}, seed : {-1, 7}]

DefaultTestSize == 2
RandomState == 42

\* a parser that lets an option it does not know pass
parse_known_args(argv) ==
  [ok |-> TRUE,
   label_field |-> IF argv.label_field = "" THEN "rug_label" ELSE argv.label_field,
   test_size |-> IF argv.test_size = 0 THEN DefaultTestSize ELSE argv.test_size]

\* the Trainer's parser.parse_args(): there is no seed option, and argparse
\* ends the run with a usage error on an option it does not know
parse_args(argv) ==
  [ok |-> argv.seed = -1,
   label_field |-> IF argv.label_field = "" THEN "rug_label" ELSE argv.label_field,
   test_size |-> IF argv.test_size = 0 THEN DefaultTestSize ELSE argv.test_size]

NoArgs == [ok |-> FALSE, label_field |-> "", test_size |-> 0]

----------------------------------------------------------------------------
\* State

VARIABLES
  prog,          \* "train" or "score": the entrypoint that runs
  pc,            \* the statement of main about to run; "exit" when the run is over
  exit,          \* "" while running, "ok", or the error the run ended with
  argv,          \* the command line
  args,          \* parse_args' result
  disk,          \* the model, metrics and output files
  disk0,         \* the files as they were when the run started
  file,          \* the lines of the dataset file, once read
  records,       \* load_jsonl's result
  labels,        \* build_labels' float series
  y,             \* labels after the mask and astype(int)
  feature_df,    \* the dataframe
  X,             \* feature_df[FEATURE_COLUMNS] as handed to the split / the model
  split,         \* [train, test]: the index labels of x_train and x_test
  random_state,  \* the seed the split ran with, 0 before
  model,         \* the fitted (Trainer) or loaded (Scorer) model
  proba,         \* the Scorer's probabilities
  metrics,       \* the Trainer's metrics dict
  rec,           \* Feature Flattener on its own: the record
  flat           \* Feature Flattener on its own: the result

vars == << prog, pc, exit, argv, args, disk, disk0, file, records, labels, y,
           feature_df, X, split, random_state, model, proba, metrics, rec, flat >>

data == << records, labels, y, feature_df, X, split, random_state, model, proba, metrics >>

UsageMsg == "usage: unrecognized arguments"
NoRecordsMsg == "No records found in dataset."
OneClassMsg == "Labels must contain at least two classes."

Idle ==
  /\ exit = "" /\ args = NoArgs /\ file = << >> /\ records = << >>
  /\ labels = << >> /\ y = << >> /\ feature_df = << >> /\ X = << >>
  /\ split = [train |-> {}, test |-> {}] /\ random_state = 0
  /\ model = NoModel /\ proba = << >> /\ metrics = NoMetrics

Init ==
  /\ prog \in {"train", "score"}
  /\ pc = "start"
  /\ argv \in IF prog = "train" THEN TrainArgv ELSE {NoArgv}
  /\ disk0 \in {FreshDisk, StaleDisk}
  /\ disk = disk0
  /\ Idle
  /\ rec = NullRecord /\ flat = [ok |-> FALSE, row |-> NullRow]

\* raise: the run ends with the error and nothing else changes
Abort(msg) ==
  /\ pc' = "exit" /\ exit' = msg

----------------------------------------------------------------------------
\* Trainer: main of train_rugpull.py

TrainParseArgs ==
  /\ prog = "train" /\ pc = "start"
  /\ IF parse_args(argv).ok
     THEN /\ args' = parse_args(argv)
          /\ pc' = "load" /\ UNCHANGED exit
     ELSE /\ Abort(UsageMsg)
          /\ UNCHANGED args
  /\ UNCHANGED << prog, argv, disk, disk0, file, data, rec, flat >>

\* the guard left out
NoRecordsNever(rows) == FALSE

\* `if not records`
NoRecords(rows) == Len(rows) = 0

TrainLoad ==
  /\ prog = "train" /\ pc = "load"
  /\ \E f \in Files :
       /\ file' = f
       /\ IF ~load_jsonl(f).ok
          THEN Abort("JSONDecodeError") /\ UNCHANGED records
          ELSE IF NoRecords(load_jsonl(f).rows)
          THEN Abort(NoRecordsMsg) /\ UNCHANGED records
          ELSE /\ records' = load_jsonl(f).rows
               /\ pc' = "labels" /\ UNCHANGED exit
  /\ UNCHANGED << prog, argv, args, disk, disk0, labels, y, feature_df, X, split,
                  random_state, model, proba, metrics, rec, flat >>

TrainBuildLabels ==
  /\ prog = "train" /\ pc = "labels"
  /\ LET r == build_labels(records, args.label_field)
     IN IF r.ok
        THEN /\ labels' = r.labels
             /\ pc' = "dataframe" /\ UNCHANGED exit
        ELSE Abort("ValueError") /\ UNCHANGED labels
  /\ UNCHANGED << prog, argv, args, disk, disk0, file, records, y, feature_df, X,
                  split, random_state, model, proba, metrics, rec, flat >>

TrainBuildDataframe ==
  /\ prog = "train" /\ pc = "dataframe"
  /\ LET r == build_dataframe(records)
     IN IF r.ok
        THEN /\ feature_df' = r.df
             /\ pc' = "mask" /\ UNCHANGED exit
        ELSE Abort("AttributeError") /\ UNCHANGED feature_df
  /\ UNCHANGED << prog, argv, args, disk, disk0, file, records, labels, y, X,
                  split, random_state, model, proba, metrics, rec, flat >>

\* the guard off by one: a single class passes
TooFewClassesOffByOne(labs) == nunique(labs) < 1

\* `labels.nunique() < 2`
TooFewClasses(labs) == nunique(labs) < 2

\* mask, filter, fill, astype and the class guard
TrainMask ==
  /\ prog = "train" /\ pc = "mask"
  /\ LET mask == notna(labels)
     IN /\ feature_df' = fillna(loc(feature_df, mask))
        /\ y' = astype_int(loc(labels, mask))
  /\ IF TooFewClasses(y')
     THEN Abort(OneClassMsg)
     ELSE pc' = "split" /\ UNCHANGED exit
  /\ UNCHANGED << prog, argv, args, disk, disk0, file, records, labels, X,
                  split, random_state, model, proba, metrics, rec, flat >>

TrainSplit ==
  /\ prog = "train" /\ pc = "split"
  /\ X' = columns(feature_df, FEATURE_COLUMNS)
  /\ IF SplitRaises(y, args.test_size)
     THEN Abort("ValueError") /\ UNCHANGED << split, random_state >>
     ELSE /\ split' \in Splits(y, args.test_size)
          /\ random_state' = RandomState
          /\ pc' = "fit" /\ UNCHANGED exit
  /\ UNCHANGED << prog, argv, args, disk, disk0, file, records, labels, y,
                  feature_df, model, proba, metrics, rec, flat >>

\* the model dumped right after the fit, before the evaluation
TrainFitAndDump ==
  /\ prog = "train" /\ pc = "fit"
  /\ IF RowsRaise(X, split.train)
     THEN Abort("ValueError") /\ UNCHANGED << model, disk >>
     ELSE /\ model' = [kind |-> "new", train |-> split.train]
          /\ disk' = [disk EXCEPT !.model = model']
          /\ pc' = "evaluate" /\ UNCHANGED exit
  /\ UNCHANGED << prog, argv, args, disk0, file, records, labels, y,
                  feature_df, X, split, random_state, proba, metrics, rec, flat >>

TrainFit ==
  /\ prog = "train" /\ pc = "fit"
  /\ IF RowsRaise(X, split.train)
     THEN Abort("ValueError") /\ UNCHANGED model
     ELSE /\ model' = [kind |-> "new", train |-> split.train]
          /\ pc' = "evaluate" /\ UNCHANGED exit
  /\ UNCHANGED << prog, argv, args, disk, disk0, file, records, labels, y,
                  feature_df, X, split, random_state, proba, metrics, rec, flat >>

\* predict_proba on x_test, classification_report, roc_auc_score (which raises
\* unless y_test holds exactly two classes) and the metrics dict
TrainEvaluate ==
  /\ prog = "train" /\ pc = "evaluate"
  /\ IF \/ RowsRaise(X, split.test)
        \/ Cardinality({y[i].c : i \in {j \in DOMAIN y : y[j].idx \in split.test}}) # 2
     THEN Abort("ValueError") /\ UNCHANGED metrics
     ELSE /\ metrics' = [kind |-> "new",
                         train_rows |-> Cardinality(split.train),
                         test_rows |-> Cardinality(split.test)]
          /\ pc' = "dump" /\ UNCHANGED exit
  /\ UNCHANGED << prog, argv, args, disk, disk0, file, records, labels, y,
                  feature_df, X, split, random_state, model, proba, rec, flat >>

TrainDumpModel ==
  /\ prog = "train" /\ pc = "dump"
  /\ disk' = [disk EXCEPT !.model = model]
  /\ pc' = "write_metrics"
  /\ UNCHANGED << prog, exit, argv, args, disk0, file, data, rec, flat >>

TrainWriteMetrics ==
  /\ prog = "train" /\ pc = "write_metrics"
  /\ disk' = [disk EXCEPT !.metrics = metrics]
  /\ pc' = "exit" /\ exit' = "ok"
  /\ UNCHANGED << prog, argv, args, disk0, file, data, rec, flat >>

----------------------------------------------------------------------------
\* Scorer: main of score_rugpull.py

ScoreParseArgs ==
  /\ prog = "score" /\ pc = "start"
  /\ pc' = "load"
  /\ UNCHANGED << prog, exit, argv, args, disk, disk0, file, data, rec, flat >>

\* `if not records` of the Scorer
ScoreNoRecords(rows) == Len(rows) = 0

ScoreLoad ==
  /\ prog = "score" /\ pc = "load"
  /\ \E f \in Files :
       /\ file' = f
       /\ IF ~load_jsonl(f).ok
          THEN Abort("JSONDecodeError") /\ UNCHANGED records
          ELSE IF ScoreNoRecords(load_jsonl(f).rows)
          THEN Abort(NoRecordsMsg) /\ UNCHANGED records
          ELSE /\ records' = load_jsonl(f).rows
               /\ pc' = "dataframe" /\ UNCHANGED exit
  /\ UNCHANGED << prog, argv, args, disk, disk0, labels, y, feature_df, X, split,
                  random_state, model, proba, metrics, rec, flat >>

\* build_dataframe(records).fillna(0)
ScoreBuildDataframe ==
  /\ prog = "score" /\ pc = "dataframe"
  /\ LET r == build_dataframe(records)
     IN IF r.ok
        THEN /\ feature_df' = fillna(r.df)
             /\ pc' = "load_model" /\ UNCHANGED exit
        ELSE Abort("AttributeError") /\ UNCHANGED feature_df
  /\ UNCHANGED << prog, argv, args, disk, disk0, file, records, labels, y, X,
                  split, random_state, model, proba, metrics, rec, flat >>

\* joblib.load(args.model_in): raises when the file is not there
ScoreLoadModel ==
  /\ prog = "score" /\ pc = "load_model"
  /\ IF disk.model.kind = "none"
     THEN Abort("FileNotFoundError") /\ UNCHANGED model
     ELSE /\ model' = disk.model
          /\ pc' = "predict" /\ UNCHANGED exit
  /\ UNCHANGED << prog, argv, args, disk, disk0, file, records, labels, y,
                  feature_df, X, split, random_state, proba, metrics, rec, flat >>

\* the Scorer with a column list of its own, two columns swapped
ScorerFeaturesReordered(df) ==
  columns(df, [k \in DOMAIN FEATURE_COLUMNS |->
                 IF k = 1 THEN FEATURE_COLUMNS[2]
                 ELSE IF k = 2 THEN FEATURE_COLUMNS[1] ELSE FEATURE_COLUMNS[k]])

\* the matrix the Scorer hands to predict_proba
ScorerFeatures(df) == columns(df, FEATURE_COLUMNS)

ScorePredict ==
  /\ prog = "score" /\ pc = "predict"
  /\ X' = ScorerFeatures(feature_df)
  /\ IF \E i \in DOMAIN X' : HasStr(X'[i].vec)
     THEN Abort("ValueError") /\ UNCHANGED proba
     ELSE /\ proba' = predict_proba(model, X')
          /\ pc' = "write" /\ UNCHANGED exit
  /\ UNCHANGED << prog, argv, args, disk, disk0, file, records, labels, y,
                  feature_df, split, random_state, model, metrics, rec, flat >>

\* open(out, "w") and one line per pair of zip(records, proba)
ScoreWrite ==
  /\ prog = "score" /\ pc = "write"
  /\ disk' = [disk EXCEPT !.out = [kind |-> "new", lines |-> payloads(records, proba)]]
  /\ pc' = "exit" /\ exit' = "ok"
  /\ UNCHANGED << prog, argv, args, disk0, file, data, rec, flat >>

Next ==
  \/ TrainParseArgs \/ TrainLoad \/ TrainBuildLabels \/ TrainBuildDataframe
  \/ TrainMask \/ TrainSplit \/ TrainFit \/ TrainEvaluate
  \/ TrainDumpModel \/ TrainWriteMetrics
  \/ ScoreParseArgs \/ ScoreLoad \/ ScoreBuildDataframe \/ ScoreLoadModel
  \/ ScorePredict \/ ScoreWrite

Spec == Init /\ [][Next]_vars

----------------------------------------------------------------------------
\* The Feature Flattener on its own, over every shape of record

Containers(keys) ==
  {Scalar(Absent, keys), Scalar(None, keys), Scalar(Num(0), keys),
   Scalar(Num(7), keys), Scalar(Str, keys), Map(EmptyMap(keys)),
   Map(FullMap(keys, 30)),
   Map([EmptyMap(keys) EXCEPT ![CHOOSE k \in keys : TRUE] = Num(50)])}

RecordSpace ==
  {Rec(Num(10), Str, sc, pip, rug, vol, sig, mom, Absent, Absent) :
     sc \in {Absent, None, Num(50)}, pip \in {Absent, Num(10)},
     rug \in Containers(RugKeys), vol \in Containers(VolKeys),
     sig \in Containers(SigKeys), mom \in Containers(MomKeys)}

FlattenInit ==
  /\ prog = "flatten" /\ pc = "call"
  /\ argv = NoArgv /\ disk0 = FreshDisk /\ disk = disk0
  /\ Idle
  /\ rec \in RecordSpace /\ flat = [ok |-> FALSE, row |-> NullRow]

FlattenCall ==
  /\ prog = "flatten" /\ pc = "call"
  /\ flat' = flatten_record(rec)
  /\ pc' = "exit"
  /\ exit' = IF flat'.ok THEN "ok" ELSE "AttributeError"
  /\ UNCHANGED << prog, argv, args, disk, disk0, file, data, rec >>

FlattenSpec == FlattenInit /\ [][FlattenCall]_vars

----------------------------------------------------------------------------
\* Properties

\* the dataset file has been read
Loaded == prog \in {"train", "score"} /\ pc \notin {"start", "load"} /\ exit # UsageMsg

\* the file read holds no record: every line of it is blank
FileHoldsNoRecord == \A i \in DOMAIN file : Strip(file[i]) = ""

\* C1: given a dataset file with zero records (only blank lines included),
\* the Trainer and the Scorer both end with "No records found in dataset."
\* and have built no labels or dataframe, fitted or loaded no model, made
\* no prediction and written nothing.
C1_EmptyDatasetAborts ==
  (Loaded /\ FileHoldsNoRecord) =>
    /\ pc = "exit" /\ exit = NoRecordsMsg
    /\ records = << >> /\ labels = << >> /\ feature_df = << >> /\ X = << >>
    /\ model = NoModel /\ proba = << >> /\ split.train = {}
    /\ disk = disk0

C1_Witness ==
  /\ Loaded /\ Len(file) >= 2 /\ FileHoldsNoRecord
  /\ prog = "score" /\ exit = NoRecordsMsg

\* the label classes of the records that carry a usable (numeric) label
UsableClasses ==
  {Get(records[i][args.label_field]).n \div 10 :
     i \in {j \in DOMAIN records : Get(records[j][args.label_field]).tag = "num"}}

\* C2: when fewer than two label classes remain among the records with a
\* usable label (none at all included), a Trainer run never gets to the
\* split or to model.fit: it is at or before the class guard, or over with
\* an error, with no split made and no model fitted.
C2_FewClassesNeverFit ==
  (prog = "train" /\ Loaded /\ Cardinality(UsableClasses) < 2) =>
    /\ pc \in {"labels", "dataframe", "mask", "exit"}
    /\ pc = "exit" => exit \in {"JSONDecodeError", NoRecordsMsg, "ValueError",
                                "AttributeError", OneClassMsg}
    /\ (pc = "exit" /\ y # << >>) => exit = OneClassMsg
    /\ split.train = {} /\ random_state = 0
    /\ model = NoModel /\ metrics = NoMetrics

C2_Witness ==
  /\ prog = "train" /\ exit = OneClassMsg
  /\ Len(records) >= 2 /\ Cardinality(UsableClasses) = 1

\* the lines of the file that are not blank
NonBlank == SelectSeq(file, LAMBDA l : Strip(l) # "")

\* the feature vector of one record: its flattened cells, zero for a null,
\* in the order of the column list
OwnVec(r) ==
  [k \in DOMAIN FEATURE_COLUMNS |->
     LET v == flatten_record(r).row[FEATURE_COLUMNS[k]]
     IN IF IsNa(v) THEN Num(0) ELSE v]

\* C3: when the Scorer completes, the output holds one line per input
\* record (per non-blank line of the file), and the N-th line carries the t,
\* address and name of the N-th record and the score of that record's own
\* feature vector.
C3_ScorerOutputAligned ==
  (prog = "score" /\ pc = "exit" /\ exit = "ok") =>
    /\ disk.out.kind = "new"
    /\ Len(disk.out.lines) = Len(records)
    /\ Len(disk.out.lines) = Len(NonBlank)
    /\ \A i \in DOMAIN disk.out.lines :
         /\ disk.out.lines[i].t = Get(JsonLoads(NonBlank[i]).rec.t)
         /\ disk.out.lines[i].address = Get(JsonLoads(NonBlank[i]).rec.address)
         /\ disk.out.lines[i].name = Get(JsonLoads(NonBlank[i]).rec.name)
         /\ disk.out.lines[i].model_score =
              [m |-> disk0.model.kind, x |-> OwnVec(JsonLoads(NonBlank[i]).rec)]

C3_Witness ==
  /\ prog = "score" /\ pc = "exit" /\ exit = "ok"
  /\ Len(disk.out.lines) = 2 /\ Len(file) = 3
  /\ disk.out.lines[1] # disk.out.lines[2]
  /\ disk.out.lines[1].model_score.x[1] = Num(0)

\* C4: the Label Extractor returns one label per record in order, a
\* non-numeric or absent label as the missing marker, and never raises.
C4_ExtractionNeverRaises ==
  (prog = "train" /\ pc \notin {"start", "load", "labels"} /\ records # << >>) =>
    /\ Len(labels) = Len(records)
    /\ \A i \in DOMAIN labels :
         LET v == Get(records[i][args.label_field])
         IN /\ labels[i].idx = i - 1
            /\ v.tag = "num" => labels[i].v = v
            /\ v.tag # "num" => IsNa(labels[i].v)

\* C6 as stated: a seed the caller supplies is accepted, and the split runs
\* with it.
C6_SeedConfigurable ==
  (prog = "train" /\ pc # "start" /\ argv.seed # -1) =>
    /\ exit # UsageMsg
    /\ random_state # 0 => random_state = argv.seed

\* C6 amended: the test size is the caller's (0.2 when not given) and sets
\* the size of the test partition; the seed is not configurable: a command
\* line that supplies one is rejected before anything is read, and every
\* split runs with the constant 42.
C6_SeedFixed ==
  prog = "train" =>
    /\ (pc # "start" /\ argv.seed # -1) =>
         /\ pc = "exit" /\ exit = UsageMsg
         /\ file = << >> /\ random_state = 0
    /\ random_state # 0 =>
         /\ random_state = 42
         /\ args.test_size = IF argv.test_size = 0 THEN 2 ELSE argv.test_size
         /\ Cardinality(split.test) * 10 >= args.test_size * Len(y)
         /\ (Cardinality(split.test) - 1) * 10 < args.test_size * Len(y)

C6_Witness ==
  /\ prog = "train" /\ random_state = 42 /\ argv.test_size = 5
  /\ Cardinality(split.test) = 3 /\ Cardinality(split.train) = 2

\* the index labels of the records that carry a usable label
LabeledIdx ==
  {i - 1 : i \in {j \in DOMAIN records : Get(records[j][args.label_field]).tag = "num"}}

SplitDone == prog = "train" /\ random_state # 0

\* C7: with exactly two classes, once the split is made the train and the
\* test partition do not overlap and together hold every labeled row, and
\* the metrics' train_rows + test_rows is the number of records with a
\* usable label.
C7_SplitPartitionsLabeledRows ==
  (SplitDone /\ Cardinality(UsableClasses) = 2) =>
    /\ split.train \cap split.test = {}
    /\ split.train \cup split.test = LabeledIdx
    /\ metrics.kind = "new" =>
         metrics.train_rows + metrics.test_rows = Cardinality(LabeledIdx)
    /\ disk.metrics.kind = "new" =>
         disk.metrics.train_rows + disk.metrics.test_rows = Cardinality(LabeledIdx)

C7_Witness ==
  /\ SplitDone /\ Cardinality(UsableClasses) = 2
  /\ disk.metrics.kind = "new"
  /\ Cardinality(LabeledIdx) < Len(records)

\* some non-blank line of the file is malformed JSON
HasBadLine == \E i \in DOMAIN file : Strip(file[i]) # "" /\ ~JsonLoads(file[i]).ok

\* C8: the caller gets the records of the non-blank lines in file order;
\* with a malformed line anywhere the run ends in the decoding error and the
\* caller gets no record at all.
C8_LoadAllOrNothing ==
  (Loaded) =>
    IF HasBadLine
    THEN pc = "exit" /\ exit = "JSONDecodeError" /\ records = << >>
    ELSE /\ exit # "JSONDecodeError"
         /\ Len(records) = Len(NonBlank)
         /\ \A i \in DOMAIN records : records[i] = JsonLoads(NonBlank[i]).rec

C8_Witness ==
  /\ Loaded /\ ~HasBadLine
  /\ Len(records) = 2 /\ Len(file) = 3 /\ records[1] # records[2]
  /\ Strip(file[2]) = ""

\* the matrix the Scorer's statements make of a list of records (each step's
\* result bound once, as the assignments of main do)
ScorerMatrix(recs) ==
  CHOOSE m \in {ScorerFeatures(f) : f \in {fillna(d) : d \in {build_dataframe(recs).df}}} : TRUE

\* the matrix the Trainer's statements make of a list of records, every one
\* of them kept by the mask
TrainerMatrix(recs) ==
  CHOOSE m \in {columns(f, FEATURE_COLUMNS) :
                  f \in {fillna(k) :
                    k \in {loc(d, {i - 1 : i \in DOMAIN recs}) :
                      d \in {build_dataframe(recs).df}}}} : TRUE

\* C9: the feature vector the Trainer hands to the split and the model for
\* a record is the one the Scorer's statements give for that record, and the
\* one the Scorer hands to the model is the one the Trainer's give: same
\* cells, same zero fill, same column order.
C9_SameFeatures ==
  /\ (prog = "train" /\ X # << >>) =>
       \A scorer \in {ScorerMatrix(records)} :
         \A i \in DOMAIN X : X[i].vec = scorer[X[i].idx + 1].vec
  /\ (prog = "score" /\ X # << >>) =>
       \A trainer \in {TrainerMatrix(records)} :
         \A i \in DOMAIN X : X[i].vec = trainer[X[i].idx + 1].vec

C9_Witness ==
  /\ prog = "train" /\ Len(X) = 3 /\ Len(records) = 4
  /\ \E i \in DOMAIN X :
       /\ records[X[i].idx + 1].rugRisk.tag = "absent"
       /\ X[i].vec[2] = Num(0)
       /\ X[i].vec[11] = Num(80)

\* C10: the files change only in the write statements at the end of a run:
\* a run that ended in an error has left every file as it was, and a file
\* differs from what it was only once all the computation is done.
C10_WritesAfterComputation ==
  /\ (pc = "exit" /\ exit # "ok") => disk = disk0
  /\ disk # disk0 =>
       \/ /\ prog = "train" /\ pc \in {"write_metrics", "exit"}
          /\ metrics.kind = "new" /\ disk.model = model /\ disk.out = disk0.out
       \/ /\ prog = "score" /\ pc = "exit" /\ Len(proba) = Len(records)
          /\ disk.model = disk0.model /\ disk.metrics = disk0.metrics

C10_Witness ==
  /\ prog = "train" /\ pc = "exit" /\ exit = "ValueError"
  /\ model.kind = "new" /\ disk0 = StaleDisk /\ disk = disk0

----------------------------------------------------------------------------
\* Properties of the Feature Flattener, under FlattenSpec

Missing(c) == c.tag \in {"absent", "none"}

\* the columns read from each sub-object
Under(key) ==
  CASE key = "rugRisk" -> {"rug_risk_score", "rug_holders_pct", "rug_liquidity_usd",
                           "rug_vol24h_usd"}
    [] key = "volatility" -> {"volatility_range_pct", "volatility_chop_pct"}
    [] key = "signal" -> {"signal_score"}
    [] key = "momentum" -> {"momentum_score", "momentum_pct_short", "momentum_pct_long"}

SubObjects == {"rugRisk", "volatility", "signal", "momentum"}

\* C5: for a Record (each sub-object a mapping, absent or null) flattening
\* returns all 12 feature fields, null under every sub-object that is
\* absent or null; flattening raises only on a sub-object that is a non-zero
\* number or a string, never on a missing one.
C5_MissingSubObjectIsNull ==
  pc = "exit" =>
    /\ (\A k \in SubObjects : Missing(rec[k]) \/ rec[k].tag = "map") =>
         /\ flat.ok
         /\ Cardinality(DOMAIN flat.row) = 12
         /\ \A k \in SubObjects :
              Missing(rec[k]) => \A c \in Under(k) : flat.row[c] = None
    /\ ~flat.ok => \E k \in SubObjects : rec[k].tag # "map" /\ Truthy(rec[k])

C5_Witness ==
  /\ pc = "exit" /\ flat.ok
  /\ rec.rugRisk.tag = "absent" /\ rec.momentum.tag = "none"
  /\ rec.signal.tag = "map" /\ flat.row["signal_score"] = Num(30)
  /\ flat.row["rug_risk_score"] = None /\ flat.row["momentum_pct_long"] = None

====
